---- MODULE Spec2Model ----
(***************************************************************************)
(* y2logs: the YaST2 log grammar parser (y2logs_model/src/parser.rs) and   *)
(* the query engine over parsed logs (y2logs_model/src/log.rs).            *)
(*                                                                         *)
(* Text is a sequence of one-character strings.  A parser result is one of *)
(*   [t |-> "Ok", rest |-> remaining text, val |-> value]                  *)
(*   [t |-> "Error"]   nom's recoverable Err::Error                        *)
(*   [t |-> "Panic"]   a Rust panic unwinding out of the parser            *)
(* An Option is a sequence of length 0 (None) or 1 (Some).                 *)
(***************************************************************************)
EXTENDS Integers, Sequences, FiniteSets, TLC

VARIABLES
    input,      \* parse_string: the text handed to parse_string
    rest,       \* parse_string: many0's cursor `i`
    acc,        \* parse_string: many0's accumulator of entries
    outcome,    \* parse_string: "running" | "Ok" | "ParseError" | "Panic"
    log,        \* Query.log: the entries of the borrowed source Log
    q,          \* Query: the six optional predicates
    result,     \* the Log returned by the last to_log (None before the first)
    calls,      \* the calls made on the Query since Log::query, in order
    tok,        \* a single token handed to one of the token parsers
    kind,       \* which token parser tok is for
    phase,      \* "raw" | "parsed" | "shown"
    out         \* the token parser's result, then its Display text

parseVars == <<input, rest, acc, outcome>>
queryVars == <<log, q, result, calls>>
tokenVars == <<tok, kind, phase, out>>
vars == <<input, rest, acc, outcome, log, q, result, calls, tok, kind, phase, out>>

----------------------------------------------------------------------------
(* Characters and text *)

NL == "\n"
CR == "\r"
SP == " "

Digits == {"0", "1", "2", "3", "4", "5", "6", "7", "8", "9"}

Letters ==
    {"a", "b", "c", "d", "e", "f", "g", "h", "i", "j", "k", "l", "m",
     "n", "o", "p", "q", "r", "s", "t", "u", "v", "w", "x", "y", "z",
     "A", "B", "C", "D", "E", "F", "G", "H", "I", "J", "K", "L", "M",
     "N", "O", "P", "Q", "R", "S", "T", "U", "V", "W", "X", "Y", "Z"}

\* char::is_alphanumeric, on the ASCII characters the model draws
Alphanumeric == Letters \cup Digits

DigitVal(c) ==
    CASE c = "0" -> 0 [] c = "1" -> 1 [] c = "2" -> 2 [] c = "3" -> 3
      [] c = "4" -> 4 [] c = "5" -> 5 [] c = "6" -> 6 [] c = "7" -> 7
      [] c = "8" -> 8 [] c = "9" -> 9

DigitChar(n) ==
    CASE n = 0 -> "0" [] n = 1 -> "1" [] n = 2 -> "2" [] n = 3 -> "3"
      [] n = 4 -> "4" [] n = 5 -> "5" [] n = 6 -> "6" [] n = 7 -> "7"
      [] n = 8 -> "8" [] n = 9 -> "9"

Min(S) == CHOOSE x \in S : \A y \in S : x <= y

Take(s, n) == SubSeq(s, 1, n)
Drop(s, n) == SubSeq(s, n + 1, Len(s))

Range(s) == {s[i] : i \in 1..Len(s)}

None == <<>>
Some(v) == <<v>>

Ok(r, v) == [t |-> "Ok", rest |-> r, val |-> v]
Error == [t |-> "Error"]
Panic == [t |-> "Panic"]

\* the sequencing of nom's tuple/pair/delimited: the first failure is the result
Bind(r, F(_, _)) == IF r.t = "Ok" THEN F(r.rest, r.val) ELSE r

\* nom::combinator::opt: Err::Error becomes Ok(None) on the same input
opt(s, r) ==
    CASE r.t = "Ok" -> Ok(r.rest, Some(r.val))
      [] r.t = "Error" -> Ok(s, None)
      [] OTHER -> r

----------------------------------------------------------------------------
(* nom's primitives as parser.rs uses them *)

\* number of leading characters of s that are in S
PrefixLen(s, S) ==
    LET bad == {i \in 1..Len(s) : s[i] \notin S}
    IN  IF bad = {} THEN Len(s) ELSE Min(bad) - 1

\* bytes::complete::take_while: the (possibly empty) maximal prefix in S
take_while(s, S) ==
    LET n == PrefixLen(s, S) IN Ok(Drop(s, n), Take(s, n))

\* character::complete::digit1: one or more digits
digit1(s) ==
    LET n == PrefixLen(s, Digits)
    IN  IF n = 0 THEN Error ELSE Ok(Drop(s, n), Take(s, n))

\* character::complete::char (and tag of a one-character string)
char(s, c) ==
    IF s # <<>> /\ s[1] = c THEN Ok(Drop(s, 1), c) ELSE Error

\* bytes::complete::take_until(")"): the text before the first c, c not consumed
take_until(s, c) ==
    LET at == {i \in 1..Len(s) : s[i] = c}
    IN  IF at = {} THEN Error
        ELSE Ok(Drop(s, Min(at) - 1), Take(s, Min(at) - 1))

\* character::complete::not_line_ending: the text before the first "\n" or
\* "\r\n"; a "\r" that is not followed by "\n" is an error
not_line_ending(s) ==
    LET at == {i \in 1..Len(s) : s[i] \in {CR, NL}}
    IN  IF at = {} THEN Ok(<<>>, s)
        ELSE LET k == Min(at)
             IN  IF s[k] = CR /\ ~(k + 1 <= Len(s) /\ s[k + 1] = NL)
                 THEN Error
                 ELSE Ok(Drop(s, k - 1), Take(s, k - 1))

\* combinator::eof
eof(s) == IF s = <<>> THEN Ok(s, <<>>) ELSE Error

----------------------------------------------------------------------------
(* u32::from_str and the Display of a u32 *)

U32MaxDigits == <<"4", "2", "9", "4", "9", "6", "7", "2", "9", "5">>

StripZeros(ds) ==
    LET nz == {i \in 1..Len(ds) : ds[i] # "0"}
    IN  IF nz = {} THEN <<>> ELSE Drop(ds, Min(nz) - 1)

\* u32::from_str's checked arithmetic succeeds iff the value is <= u32::MAX
FitsU32(ds) ==
    LET n == StripZeros(ds)
        diff == {i \in 1..Len(n) : n[i] # U32MaxDigits[i]}
    IN  \/ Len(n) < Len(U32MaxDigits)
        \/ /\ Len(n) = Len(U32MaxDigits)
           /\ diff # {} => DigitVal(n[Min(diff)]) < DigitVal(U32MaxDigits[Min(diff)])

RECURSIVE DecimalValue(_)
DecimalValue(ds) ==
    IF ds = <<>> THEN 0
    ELSE DecimalValue(Take(ds, Len(ds) - 1)) * 10 + DigitVal(ds[Len(ds)])

\* write!(f, "{}", n) for an unsigned n
RECURSIVE ToDigits(_)
ToDigits(n) ==
    IF n < 10 THEN <<DigitChar(n)>>
    ELSE Append(ToDigits(n \div 10), DigitChar(n % 10))

\* fn number: map_res(digit1, u32::from_str)
number(s) ==
    Bind(digit1(s), LAMBDA r, ds :
        IF FitsU32(ds) THEN Ok(r, DecimalValue(ds)) ELSE Error)

----------------------------------------------------------------------------
(* chrono: NaiveDate::from_ymd and NaiveTime::from_hms panic on values that *)
(* are no calendar date / no time of day                                    *)

\* chrono's largest representable year
MAX_YEAR == 262143

IsLeap(y) == (y % 4 = 0 /\ y % 100 # 0) \/ y % 400 = 0

DaysIn(y, m) ==
    CASE m \in {1, 3, 5, 7, 8, 10, 12} -> 31
      [] m \in {4, 6, 9, 11} -> 30
      [] OTHER -> IF IsLeap(y) THEN 29 ELSE 28

ValidYmd(y, m, d) ==
    y <= MAX_YEAR /\ m \in 1..12 /\ d >= 1 /\ d <= DaysIn(y, m)

ValidHms(h, m, s) == h < 24 /\ m < 60 /\ s < 60

----------------------------------------------------------------------------
(* parser.rs: the field parsers *)

\* fn date: number '-' number '-' number, then NaiveDate::from_ymd
date(s) ==
    Bind(number(s), LAMBDA r1, year :
    Bind(char(r1, "-"), LAMBDA r2, h1 :
    Bind(number(r2), LAMBDA r3, month :
    Bind(char(r3, "-"), LAMBDA r4, h2 :
    Bind(number(r4), LAMBDA r5, day :
        IF ValidYmd(year, month, day)
        THEN Ok(r5, <<year, month, day>>)
        ELSE Panic)))))

\* fn time: number ':' number ':' number, then NaiveTime::from_hms
time(s) ==
    Bind(number(s), LAMBDA r1, hour :
    Bind(char(r1, ":"), LAMBDA r2, c1 :
    Bind(number(r2), LAMBDA r3, min :
    Bind(char(r3, ":"), LAMBDA r4, c2 :
    Bind(number(r4), LAMBDA r5, sec :
        IF ValidHms(hour, min, sec)
        THEN Ok(r5, <<hour, min, sec>>)
        ELSE Panic)))))

\* fn datetime: date ' ' time; a NaiveDateTime is <<y, m, d, h, mi, s>>
datetime(s) ==
    Bind(date(s), LAMBDA r1, naive_date :
    Bind(char(r1, SP), LAMBDA r2, sp :
    Bind(time(r2), LAMBDA r3, naive_time :
        Ok(r3, naive_date \o naive_time))))

\* fn hostname
hostname(s) == take_while(s, Alphanumeric \cup {".", "-"})

\* fn pid: '(' number ')'
pid(s) ==
    Bind(char(s, "("), LAMBDA r1, o :
    Bind(number(r1), LAMBDA r2, value :
    Bind(char(r2, ")"), LAMBDA r3, c :
        Ok(r3, value))))

\* fn component_name_parser
component_name_parser(s) ==
    take_while(s, Alphanumeric \cup {".", "-", "_", "+", ":"})

\* fn component: '[' name ']'
component(s) ==
    Bind(char(s, "["), LAMBDA r1, o :
    Bind(component_name_parser(r1), LAMBDA r2, value :
    Bind(char(r2, "]"), LAMBDA r3, c :
        Ok(r3, value))))

\* impl TryFrom<u32> for Level
try_from(v) ==
    CASE v = 0 -> [t |-> "Ok", val |-> "Debug"]
      [] v = 1 -> [t |-> "Ok", val |-> "Info"]
      [] v = 2 -> [t |-> "Ok", val |-> "Warn"]
      [] v = 3 -> [t |-> "Ok", val |-> "Error"]
      [] v = 4 -> [t |-> "Ok", val |-> "Fatal"]
      [] v = 5 -> [t |-> "Ok", val |-> "Unknown"]
      [] OTHER -> [t |-> "Err"]

\* Result::unwrap_or
unwrap_or(r, default) == IF r.t = "Ok" THEN r.val ELSE default

\* impl Display for Level: the ordinal, written in decimal
LevelDisplay(l) ==
    LET value == CASE l = "Debug" -> 0
                   [] l = "Info" -> 1
                   [] l = "Warn" -> 2
                   [] l = "Error" -> 3
                   [] l = "Fatal" -> 4
                   [] l = "Unknown" -> 5
    IN  ToDigits(value)

\* level with a code out of the table failing the parse
level_without_default(s) ==
    Bind(char(s, "<"), LAMBDA r1, o :
    Bind(number(r1), LAMBDA r2, lvl :
    Bind(char(r2, ">"), LAMBDA r3, c :
        IF try_from(lvl).t = "Ok" THEN Ok(r3, try_from(lvl).val) ELSE Error)))

\* fn level: '<' number '>', then Level::try_from(..).unwrap_or(Level::Unknown)
level(s) ==
    Bind(char(s, "<"), LAMBDA r1, o :
    Bind(number(r1), LAMBDA r2, lvl :
    Bind(char(r2, ">"), LAMBDA r3, c :
        Ok(r3, unwrap_or(try_from(lvl), "Unknown")))))

\* fn parse_filename
parse_filename(s) == take_while(s, Alphanumeric \cup {".", "/", "_"})

\* fn parse_method: '(' take_until(")") ')'
parse_method(s) ==
    Bind(char(s, "("), LAMBDA r1, o :
    Bind(take_until(r1, ")"), LAMBDA r2, method :
    Bind(char(r2, ")"), LAMBDA r3, c :
        Ok(r3, method))))

\* fn parse_line_number: ':' number
parse_line_number(s) ==
    Bind(char(s, ":"), LAMBDA r1, c :
    Bind(number(r1), LAMBDA r2, line :
        Ok(r2, line)))

\* parse_location with the line number required
parse_location_line_required(s) ==
    Bind(parse_filename(s), LAMBDA r1, file :
    Bind(opt(r1, parse_method(r1)), LAMBDA r2, method :
    Bind(parse_line_number(r2), LAMBDA r3, line :
        Ok(r3, [file |-> file, method |-> method, line |-> Some(line)]))))

\* fn parse_location: parse_filename, opt(parse_method), opt(parse_line_number)
parse_location(s) ==
    Bind(parse_filename(s), LAMBDA r1, file :
    Bind(opt(r1, parse_method(r1)), LAMBDA r2, method :
    Bind(opt(r2, parse_line_number(r2)), LAMBDA r3, line :
        Ok(r3, [file |-> file, method |-> method, line |-> line]))))

\* impl Display for Location
LocationDisplay(l) ==
    l.file
    \o (IF l.method # None THEN <<"(">> \o l.method[1] \o <<")">> ELSE <<>>)
    \o (IF l.line # None THEN <<":">> \o ToDigits(l.line[1]) ELSE <<>>)

\* fn digits_and_hyphen: recognize(pair(digit1, char('-')))
digits_and_hyphen(s) ==
    Bind(digit1(s), LAMBDA r1, ds :
    Bind(char(r1, "-"), LAMBDA r2, h :
        Ok(r2, Append(ds, h))))

\* message_end with the line feed peeked at, not consumed
message_end_peek_newline(s) ==
    LET nl == char(s, NL)
    IN  IF nl.t = "Ok" /\ digits_and_hyphen(nl.rest).t = "Ok"
        THEN Ok(s, <<>>)
        ELSE eof(s)

\* message_end with a line feed at the end of the text taken as a terminator
\* too
message_end_final_newline(s) ==
    LET nl == char(s, NL)
    IN  IF nl.t = "Ok"
           /\ (digits_and_hyphen(nl.rest).t = "Ok" \/ nl.rest = <<>>)
        THEN Ok(nl.rest, <<>>)
        ELSE eof(s)

\* parse_message's terminator:
\* alt((map(pair(newline, peek(digits_and_hyphen)), ..), eof))
message_end(s) ==
    LET nl == char(s, NL)
    IN  IF nl.t = "Ok" /\ digits_and_hyphen(nl.rest).t = "Ok"
        THEN Ok(nl.rest, <<>>)
        ELSE eof(s)

\* parse_message's element: recognize(pair(opt(newline), not_line_ending))
message_chunk(s) ==
    Bind(opt(s, char(s, NL)), LAMBDA r1, nl :
    Bind(not_line_ending(r1), LAMBDA r2, text :
        Ok(r2, Take(s, Len(s) - Len(r2)))))

\* nom::multi::many_till(message_chunk, message_end), the chunks concatenated
RECURSIVE many_till(_, _)
many_till(i, res) ==
    LET g == message_end(i)
    IN  IF g.t = "Ok" THEN Ok(g.rest, res)
        ELSE LET f == message_chunk(i)
             IN  IF f.t # "Ok" THEN f
                 ELSE IF Len(f.rest) = Len(i) THEN Error
                 ELSE many_till(f.rest, res \o f.val)

\* fn parse_message
parse_message(s) == many_till(s, <<>>)

\* fn parse_line, up to and including the space before the message
parse_header(s) ==
    Bind(datetime(s), LAMBDA r1, dt :
    Bind(char(r1, SP), LAMBDA r2, s1 :
    Bind(level(r2), LAMBDA r3, lvl :
    Bind(char(r3, SP), LAMBDA r4, s2 :
    Bind(hostname(r4), LAMBDA r5, host :
    Bind(pid(r5), LAMBDA r6, p :
    Bind(char(r6, SP), LAMBDA r7, s3 :
    Bind(component(r7), LAMBDA r8, comp :
    Bind(char(r8, SP), LAMBDA r9, s4 :
    Bind(parse_location(r9), LAMBDA r10, loc :
    Bind(char(r10, SP), LAMBDA r11, s5 :
        Ok(r11, [datetime |-> dt, level |-> lvl, hostname |-> host,
                 pid |-> p, component |-> comp, location |-> loc]))))))))))))

\* fn parse_line: the header, then parse_message
parse_line(s) ==
    Bind(parse_header(s), LAMBDA r1, h :
    Bind(parse_message(r1), LAMBDA r2, message :
        Ok(r2, [datetime |-> h.datetime, level |-> h.level,
                hostname |-> h.hostname, pid |-> h.pid,
                component |-> h.component, location |-> h.location,
                message |-> message])))

----------------------------------------------------------------------------
(* The texts handed to parse_string: records built from field texts and    *)
(* joined by line feeds.  The first text of each set is well-formed, after *)
(* the record of test_parse_y2log; the others vary one field at a time.    *)

DefaultDatetime ==
    <<"2", "0", "2", "2", "-", "0", "8", "-", "2", "5", SP, "1", "4", ":",
      "2", "8", ":", "4", "4">>

DefaultLevel ==
    <<"<", "1", ">">>

DefaultHostPid ==
    <<"h", "o", "s", "t", "(", "1", "0", "0", ")">>

DefaultComponent ==
    <<"[", "c", "o", "m", "p", "]">>

DefaultLocation ==
    <<"f", "i", "l", "e", ".", "c", "c", "(", "m", ")", ":", "5">>

DefaultMessage ==
    <<"o", "n", "e">>

\* padded, unpadded, month out of range, hour out of range, no seconds,
\* a year over u32::MAX
DatetimeTexts ==
    {<<"2", "0", "2", "2", "-", "0", "8", "-", "2", "5", SP, "1", "4", ":",
       "2", "8", ":", "4", "4">>,
     <<"2", "0", "2", "2", "-", "8", "-", "5", SP, "1", ":", "2", ":", "3">>,
     <<"2", "0", "2", "2", "-", "1", "3", "-", "0", "1", SP, "1", "4", ":",
       "2", "8", ":", "4", "4">>,
     <<"2", "0", "2", "2", "-", "0", "8", "-", "2", "5", SP, "2", "4", ":",
       "0", "0", ":", "0", "0">>,
     <<"2", "0", "2", "2", "-", "0", "8", "-", "2", "5", SP, "1", "4", ":",
       "2", "8">>,
     <<"9", "9", "9", "9", "9", "9", "9", "9", "9", "9", "9", "-", "0", "1",
       "-", "0", "1", SP, "0", "0", ":", "0", "0", ":", "0", "0">>}

\* an ordinal, a numeral out of the table, a non-numeric token
LevelTexts ==
    {<<"<", "1", ">">>,
     <<"<", "9", ">">>,
     <<"<", "x", ">">>}

\* hostname(pid), with an empty hostname, with a non-numeric pid
HostPidTexts ==
    {<<"h", "o", "s", "t", "(", "1", "0", "0", ")">>,
     <<"(", "1", "0", "0", ")">>,
     <<"h", "o", "s", "t", "(", "x", ")">>}

\* [component], and with a character outside the set
ComponentTexts ==
    {<<"[", "c", "o", "m", "p", "]">>,
     <<"[", "c", "o", SP, "m", "p", "]">>}

\* file(method):line, file alone, and locations without file characters
LocationTexts ==
    {<<"f", "i", "l", "e", ".", "c", "c", "(", "m", ")", ":", "5">>,
     <<"Y", "a", "P", "I">>,
     <<"(", "m", ")", ":", "5">>,
     <<>>}

\* one line, empty, a continuation line, a final line feed, an empty line,
\* a continuation line starting with digits and "-", CR LF,
\* a first line starting with digits and "-"
MessageTexts ==
    {<<"o", "n", "e">>,
     <<>>,
     <<"o", "n", "e", NL, "t", "w", "o">>,
     <<"o", "n", "e", NL>>,
     <<"a", NL, NL, "b">>,
     <<"a", NL, "1", "2", "-", "b">>,
     <<"a", CR, NL, "b">>,
     <<"7", "-", "u", "p">>}

Record(dt, lv, hp, comp, loc, msg) ==
    dt \o <<SP>> \o lv \o <<SP>> \o hp \o <<SP>> \o comp \o <<SP>> \o loc
       \o <<SP>> \o msg

RecordTexts ==
    {Record(dt, DefaultLevel, DefaultHostPid, DefaultComponent,
            DefaultLocation, DefaultMessage) : dt \in DatetimeTexts}
    \cup {Record(DefaultDatetime, lv, DefaultHostPid, DefaultComponent,
                 DefaultLocation, DefaultMessage) : lv \in LevelTexts}
    \cup {Record(DefaultDatetime, DefaultLevel, hp, DefaultComponent,
                 DefaultLocation, DefaultMessage) : hp \in HostPidTexts}
    \cup {Record(DefaultDatetime, DefaultLevel, DefaultHostPid, comp,
                 DefaultLocation, DefaultMessage) : comp \in ComponentTexts}
    \cup {Record(DefaultDatetime, DefaultLevel, DefaultHostPid,
                 DefaultComponent, loc, DefaultMessage) : loc \in LocationTexts}
    \cup {Record(DefaultDatetime, DefaultLevel, DefaultHostPid,
                 DefaultComponent, DefaultLocation, msg) : msg \in MessageTexts}

\* the largest number of records in a text
MaxRecords == 2

RECURSIVE JoinLines(_)
JoinLines(ls) ==
    IF ls = <<>> THEN <<>>
    ELSE IF Len(ls) = 1 THEN ls[1]
    ELSE ls[1] \o <<NL>> \o JoinLines(Tail(ls))

InputTexts ==
    {JoinLines(rs) : rs \in UNION {[1..n -> RecordTexts] : n \in 0..MaxRecords}}

----------------------------------------------------------------------------
(* parse_string: many0(parse_line), one iteration of many0's loop per step *)

IdleQuery ==
    /\ log = <<>>
    /\ q = [level |-> None, pid |-> None, component |-> None,
            hostname |-> None, from_datetime |-> None, to_datetime |-> None]
    /\ result = None
    /\ calls = <<>>

IdleToken ==
    /\ tok = <<>>
    /\ kind = "none"
    /\ phase = "raw"
    /\ out = <<>>

Init ==
    /\ input \in InputTexts
    /\ rest = input
    /\ acc = <<>>
    /\ outcome = "running"
    /\ IdleQuery
    /\ IdleToken

\* fn parse_string: many0 stops with Ok((i, acc)) at the first Err::Error of
\* parse_line, fails when parse_line succeeds without consuming, and otherwise
\* pushes the entry and goes on; a panic of parse_line unwinds out of it
parse_string ==
    /\ outcome = "running"
    /\ LET r == parse_line(rest)
       IN  CASE r.t = "Error" ->
                  /\ outcome' = "Ok"
                  /\ UNCHANGED <<rest, acc>>
             [] r.t = "Panic" ->
                  /\ outcome' = "Panic"
                  /\ UNCHANGED <<rest, acc>>
             [] r.t = "Ok" /\ Len(r.rest) = Len(rest) ->
                  /\ outcome' = "ParseError"
                  /\ UNCHANGED <<rest, acc>>
             [] OTHER ->
                  /\ rest' = r.rest
                  /\ acc' = Append(acc, r.val)
                  /\ UNCHANGED outcome
    /\ UNCHANGED <<input, queryVars, tokenVars>>

Next == parse_string

Spec == Init /\ [][Next]_vars

----------------------------------------------------------------------------
(* The record grammar stated on physical lines, for the claims on            *)
(* parse_string                                                              *)

\* the physical lines of a text: the text split at every line feed
RECURSIVE SplitLines(_)
SplitLines(s) ==
    LET at == {i \in 1..Len(s) : s[i] = NL}
    IN  IF at = {} THEN <<s>>
        ELSE <<Take(s, Min(at) - 1)>> \o SplitLines(Drop(s, Min(at)))

\* a line that starts with one or more digits and then "-"
IsRecordStart(line) ==
    \E n \in 1..(Len(line) - 1) :
        /\ \A i \in 1..n : line[i] \in Digits
        /\ line[n + 1] = "-"

RecordStarts(ls) == {i \in 1..Len(ls) : IsRecordStart(ls[i])}

\* the k-th smallest element of a set of numbers
Nth(S, k) == CHOOSE x \in S : Cardinality({y \in S : y < x}) = k - 1

\* the first line of the k-th record
RecordLine(ls, k) == ls[Nth(RecordStarts(ls), k)]

\* the lines after the first line of the k-th record, up to the next record
ContinuationLines(ls, k) ==
    LET starts == RecordStarts(ls)
        first == Nth(starts, k)
        last == IF k < Cardinality(starts) THEN Nth(starts, k + 1) - 1
                ELSE Len(ls)
    IN  SubSeq(ls, first + 1, last)

\* what is left of the k-th record's first line after its fields
FirstLineRemainder(ls, k) == parse_header(RecordLine(ls, k)).rest

\* the text is empty, or starts with a record and the fields of every record
\* line parse
HeadersParse(text) ==
    LET ls == SplitLines(text)
    IN  \/ text = <<>>
        \/ /\ IsRecordStart(ls[1])
           /\ \A i \in RecordStarts(ls) : parse_header(ls[i]).t = "Ok"

\* a text of records whose lines end in a line feed, without carriage returns
WellFormed(text) == CR \notin Range(text) /\ HeadersParse(text)

Done == outcome # "running"

\* C1: a text that does not conform to the record grammar at some point makes
\* parse_string return ParseError, never an Ok result with the entries parsed
\* before that point.
C1_MalformedInputIsParseError ==
    (Done /\ ~HeadersParse(input)) => outcome = "ParseError"

C9_FileIsNonEmpty ==
    \A k \in 1..Len(acc) : acc[k].location.file # <<>>

\* `YYYY-MM-DD HH:MM:SS `: fixed width, zero padded, a calendar date and a time
\* of day
StrictDatetime(line) ==
    /\ Len(line) >= 20
    /\ \A i \in {1, 2, 3, 4, 6, 7, 9, 10, 12, 13, 15, 16, 18, 19} :
           line[i] \in Digits
    /\ line[5] = "-" /\ line[8] = "-" /\ line[11] = SP
    /\ line[14] = ":" /\ line[17] = ":" /\ line[20] = SP
    /\ LET month == DecimalValue(SubSeq(line, 6, 7))
           day == DecimalValue(SubSeq(line, 9, 10))
       IN  ValidYmd(DecimalValue(SubSeq(line, 1, 4)), month, day)
    /\ ValidHms(DecimalValue(SubSeq(line, 12, 13)),
                DecimalValue(SubSeq(line, 15, 16)),
                DecimalValue(SubSeq(line, 18, 19)))

\* C10: a record is accepted only when its datetime token is the strict
\* `YYYY-MM-DD HH:MM:SS`; any other datetime is rejected, neither decoded into
\* an entry nor aborting the parse.
C10_OnlyStrictDatetimeAccepted ==
    /\ outcome # "Panic"
    /\ \A k \in 1..Len(acc) : StrictDatetime(RecordLine(SplitLines(input), k))

\* the text s ends with the character c
EndsWith(s, c) == s # <<>> /\ s[Len(s)] = c

\* the line before the first line of the k-th record is empty
EmptyLineBefore(ls, k) == ls[Nth(RecordStarts(ls), k) - 1] = <<>>

\* a well-formed text whose last record is followed by a final line feed has
\* been parsed
FinalNewlineParsed == Done /\ WellFormed(input) /\ EndsWith(input, NL)

\* C11 as stated: the line feed before a record start is in no message and
\* the line feed that ends the text is kept, so for a text whose last record
\* is followed by a final line feed the last entry's message ends with a line
\* feed and the message of no earlier entry does.
C11_OnlyLastMessageEndsWithNewline ==
    FinalNewlineParsed =>
        /\ acc # <<>>
        /\ EndsWith(acc[Len(acc)].message, NL)
        /\ \A k \in 1..(Len(acc) - 1) : ~EndsWith(acc[k].message, NL)

\* C11: for a text whose last record is followed by a final line feed the
\* last entry's message ends with a line feed, and the message of an earlier
\* entry ends with a line feed exactly when an empty line precedes the next
\* record start: only the line feed directly before a record start is
\* consumed as a separator.
C11_EarlierMessageEndsWithNewlineIffEmptyLine ==
    FinalNewlineParsed =>
        LET ls == SplitLines(input)
        IN  /\ acc # <<>>
            /\ EndsWith(acc[Len(acc)].message, NL)
            /\ \A k \in 1..(Len(acc) - 1) :
                   EndsWith(acc[k].message, NL) <=> EmptyLineBefore(ls, k + 1)

\* C11 witness: two one-line records and a final line feed gave a first
\* message without the line feed and a last message with it.
C11_Witness ==
    /\ outcome = "Ok"
    /\ WellFormed(input)
    /\ EndsWith(input, NL)
    /\ Len(acc) = 2
    /\ acc[1].message = <<"o", "n", "e">>
    /\ acc[2].message = <<"o", "n", "e", NL>>

----------------------------------------------------------------------------
(* log.rs: Log::query, the Query builder and Query::to_log *)

T1 == <<2022, 8, 25, 14, 28, 44>>
T2 == <<2022, 8, 25, 14, 28, 45>>
T3 == <<2022, 8, 26, 9, 0, 0>>

SampleLocation ==
    [file |-> <<"f">>, method |-> Some(<<"m">>), line |-> Some(5)]

\* entries of mixed datetime / level / hostname / pid / component
EntryPool ==
    {[datetime |-> T1, level |-> "Info", hostname |-> <<"h">>, pid |-> 1,
      component |-> <<"a">>, location |-> SampleLocation, message |-> <<"x">>],
     [datetime |-> T2, level |-> "Info", hostname |-> <<"h">>, pid |-> 2,
      component |-> <<"b">>, location |-> SampleLocation, message |-> <<"y">>],
     [datetime |-> T3, level |-> "Error", hostname |-> <<"g">>, pid |-> 1,
      component |-> <<"a">>, location |-> SampleLocation, message |-> <<"z">>]}

\* the largest number of entries in the source Log
MaxEntries == 2

\* the largest number of calls made on one Query
MaxCalls == 3

Logs == UNION {[1..n -> EntryPool] : n \in 0..MaxEntries}

LevelArgs == {"Info", "Error"}
PidArgs == {1, 2}
ComponentArgs == {<<"a">>, <<"b">>}
HostnameArgs == {<<"h">>}
FromArgs == {T1, T2}
ToArgs == {T2, T3}

\* Query::new: every predicate None
NoPredicates ==
    [level |-> None, pid |-> None, component |-> None, hostname |-> None,
     from_datetime |-> None, to_datetime |-> None]

\* NaiveDateTime's derived ordering: by date, then by time of day
DtLess(a, b) ==
    \E i \in 1..6 : a[i] < b[i] /\ \A j \in 1..(i - 1) : a[j] = b[j]

\* the closure of to_log with its range tests strict the wrong way round
filter_closure_exclusive(qq, e) ==
    IF qq.level # None /\ qq.level[1] # e.level THEN FALSE
    ELSE IF qq.pid # None /\ qq.pid[1] # e.pid THEN FALSE
    ELSE IF qq.component # None /\ qq.component[1] # e.component THEN FALSE
    ELSE IF qq.hostname # None /\ qq.hostname[1] # e.hostname THEN FALSE
    ELSE IF qq.from_datetime # None
            /\ ~DtLess(qq.from_datetime[1], e.datetime) THEN FALSE
    ELSE IF qq.to_datetime # None
            /\ ~DtLess(e.datetime, qq.to_datetime[1]) THEN FALSE
    ELSE TRUE

\* the closure of to_log accepting an entry that matches any set predicate
filter_closure_any(qq, e) ==
    \/ qq = NoPredicates
    \/ qq.level # None /\ qq.level[1] = e.level
    \/ qq.pid # None /\ qq.pid[1] = e.pid
    \/ qq.component # None /\ qq.component[1] = e.component
    \/ qq.hostname # None /\ qq.hostname[1] = e.hostname
    \/ qq.from_datetime # None /\ ~DtLess(e.datetime, qq.from_datetime[1])
    \/ qq.to_datetime # None /\ ~DtLess(qq.to_datetime[1], e.datetime)

\* the closure of Query::to_log's filter: one early `return false` per predicate
filter_closure(qq, e) ==
    IF qq.level # None /\ qq.level[1] # e.level THEN FALSE
    ELSE IF qq.pid # None /\ qq.pid[1] # e.pid THEN FALSE
    ELSE IF qq.component # None /\ qq.component[1] # e.component THEN FALSE
    ELSE IF qq.hostname # None /\ qq.hostname[1] # e.hostname THEN FALSE
    ELSE IF qq.from_datetime # None
            /\ DtLess(e.datetime, qq.from_datetime[1]) THEN FALSE
    ELSE IF qq.to_datetime # None
            /\ DtLess(qq.to_datetime[1], e.datetime) THEN FALSE
    ELSE TRUE

\* entries.iter().filter(..).cloned().collect()
RECURSIVE filtered(_, _)
filtered(entries, qq) ==
    IF entries = <<>> THEN <<>>
    ELSE (IF filter_closure(qq, Head(entries)) THEN <<Head(entries)>> ELSE <<>>)
         \o filtered(Tail(entries), qq)

Call(name, arg) == [name |-> name, arg |-> arg]

CanCall == Len(calls) < MaxCalls

InitQuery ==
    /\ log \in Logs
    /\ q = NoPredicates
    /\ result = None
    /\ calls = <<>>
    /\ input = <<>>
    /\ rest = <<>>
    /\ acc = <<>>
    /\ outcome = "Ok"
    /\ IdleToken

\* Log::query -> Query::new: a fresh query on the same log
query ==
    /\ CanCall
    /\ q' = NoPredicates
    /\ calls' = Append(calls, Call("query", None))
    /\ UNCHANGED <<log, result, parseVars, tokenVars>>

\* with_pid keeping a value that is already set
with_pid_keep_first(p) ==
    /\ CanCall
    /\ q' = IF q.pid = None THEN [q EXCEPT !.pid = Some(p)] ELSE q
    /\ calls' = Append(calls, Call("with_pid", p))
    /\ UNCHANGED <<log, result, parseVars, tokenVars>>

\* Query::with_level
with_level(l) ==
    /\ CanCall
    /\ q' = [q EXCEPT !.level = Some(l)]
    /\ calls' = Append(calls, Call("with_level", l))
    /\ UNCHANGED <<log, result, parseVars, tokenVars>>

\* Query::with_pid
with_pid(p) ==
    /\ CanCall
    /\ q' = [q EXCEPT !.pid = Some(p)]
    /\ calls' = Append(calls, Call("with_pid", p))
    /\ UNCHANGED <<log, result, parseVars, tokenVars>>

\* Query::with_component
with_component(c) ==
    /\ CanCall
    /\ q' = [q EXCEPT !.component = Some(c)]
    /\ calls' = Append(calls, Call("with_component", c))
    /\ UNCHANGED <<log, result, parseVars, tokenVars>>

\* Query::with_hostname
with_hostname(h) ==
    /\ CanCall
    /\ q' = [q EXCEPT !.hostname = Some(h)]
    /\ calls' = Append(calls, Call("with_hostname", h))
    /\ UNCHANGED <<log, result, parseVars, tokenVars>>

\* Query::from_datetime
from_datetime(dt) ==
    /\ CanCall
    /\ q' = [q EXCEPT !.from_datetime = Some(dt)]
    /\ calls' = Append(calls, Call("from_datetime", dt))
    /\ UNCHANGED <<log, result, parseVars, tokenVars>>

\* Query::to_datetime
to_datetime(dt) ==
    /\ CanCall
    /\ q' = [q EXCEPT !.to_datetime = Some(dt)]
    /\ calls' = Append(calls, Call("to_datetime", dt))
    /\ UNCHANGED <<log, result, parseVars, tokenVars>>

\* to_log moving the matching entries out of the source log
to_log_draining ==
    /\ CanCall
    /\ result' = Some(filtered(log, q))
    /\ log' = SelectSeq(log, LAMBDA e : ~filter_closure(q, e))
    /\ calls' = Append(calls, Call("to_log", None))
    /\ UNCHANGED <<q, parseVars, tokenVars>>

\* Query::to_log: a new Log of clones of the matching entries
to_log ==
    /\ CanCall
    /\ result' = Some(filtered(log, q))
    /\ calls' = Append(calls, Call("to_log", None))
    /\ UNCHANGED <<log, q, parseVars, tokenVars>>

NextQuery ==
    \/ query
    \/ \E l \in LevelArgs : with_level(l)
    \/ \E p \in PidArgs : with_pid(p)
    \/ \E c \in ComponentArgs : with_component(c)
    \/ \E h \in HostnameArgs : with_hostname(h)
    \/ \E dt \in FromArgs : from_datetime(dt)
    \/ \E dt \in ToArgs : to_datetime(dt)
    \/ to_log

SpecQuery == InitQuery /\ [][NextQuery]_vars

----------------------------------------------------------------------------
(* The token parsers on their own, as the unit tests of parser.rs call      *)
(* them: level, parse_location and parse_line, and the Display of the value *)

\* the largest severity code drawn
MaxCode == 12

LevelToken(n) == <<"<">> \o ToDigits(n) \o <<">">>

\* not a numeral, empty, zero padded, over u32::MAX
OddLevelTokens ==
    {<<"<", "x", ">">>,
     <<"<", ">">>,
     <<"<", "0", "3", ">">>,
     <<"<", "4", "2", "9", "4", "9", "6", "7", "2", "9", "6", ">">>}

\* codes past u8, past u16 and at i32::MAX
LargeCodes == {255, 256, 65536, 2147483647}

SeverityCodes == (0..MaxCode) \cup LargeCodes

LevelTokens == {LevelToken(n) : n \in SeverityCodes} \cup OddLevelTokens

\* the files of the unit tests
FileTexts ==
    {<<"Y", "a", "P", "I">>,
     <<"m", "o", "d", ".", "r", "b">>,
     <<"y", "2", "/", "s", "_", "m", ".", "r", "b">>}

\* method names: plain, empty, with a space, with an opening parenthesis
MethodTexts ==
    {<<"S", "e", "t">>,
     <<>>,
     <<"a", SP, "b">>,
     <<"f", "(", "x">>}

\* line numbers: plain, zero, zero padded, i32::MAX, u32::MAX + 1
LineTexts ==
    {<<"7", "9">>,
     <<"0">>,
     <<"0", "0", "7">>,
     <<"2", "1", "4", "7", "4", "8", "3", "6", "4", "7">>,
     <<"4", "2", "9", "4", "9", "6", "7", "2", "9", "6">>}

\* file, file(method), file:line or file(method):line
LocationText(file, method, line) ==
    file
    \o (IF method # None THEN <<"(">> \o method[1] \o <<")">> ELSE <<>>)
    \o (IF line # None THEN <<":">> \o line[1] ELSE <<>>)

MethodOptions == {None} \cup {Some(m) : m \in MethodTexts}
LineOptions == {None} \cup {Some(l) : l \in LineTexts}

\* no closing parenthesis, no digits, line before method, no file
OddLocationTokens ==
    {<<"m", "o", "d", ".", "r", "b", "(", "S", "e", "t">>,
     <<"m", "o", "d", ".", "r", "b", ":">>,
     <<"m", "o", "d", ".", "r", "b", ":", "7", "9", "(", "S", "e", "t", ")">>,
     <<"(", "S", "e", "t", ")", ":", "7", "9">>}

LocationTokens ==
    {LocationText(f, m, l) :
        f \in FileTexts, m \in MethodOptions, l \in LineOptions}
    \cup OddLocationTokens

RecordWithLevel(lv) ==
    Record(DefaultDatetime, lv, DefaultHostPid, DefaultComponent,
           DefaultLocation, DefaultMessage)

LineTokens == {RecordWithLevel(lv) : lv \in LevelTexts}

InitToken ==
    /\ \/ kind = "level" /\ tok \in LevelTokens
       \/ kind = "location" /\ tok \in LocationTokens
       \/ kind = "line" /\ tok \in LineTokens
    /\ phase = "raw"
    /\ out = <<>>
    /\ input = <<>>
    /\ rest = <<>>
    /\ acc = <<>>
    /\ outcome = "Ok"
    /\ IdleQuery

\* level(tok)
apply_level ==
    /\ kind = "level" /\ phase = "raw"
    /\ out' = level(tok)
    /\ phase' = "parsed"
    /\ UNCHANGED <<tok, kind, parseVars, queryVars>>

\* parse_location(tok)
apply_parse_location ==
    /\ kind = "location" /\ phase = "raw"
    /\ out' = parse_location(tok)
    /\ phase' = "parsed"
    /\ UNCHANGED <<tok, kind, parseVars, queryVars>>

\* parse_line(tok)
apply_parse_line ==
    /\ kind = "line" /\ phase = "raw"
    /\ out' = parse_line(tok)
    /\ phase' = "parsed"
    /\ UNCHANGED <<tok, kind, parseVars, queryVars>>

\* format!("{}", level)
display_level ==
    /\ kind = "level" /\ phase = "parsed" /\ out.t = "Ok"
    /\ out' = LevelDisplay(out.val)
    /\ phase' = "shown"
    /\ UNCHANGED <<tok, kind, parseVars, queryVars>>

\* format!("{}", location)
display_location ==
    /\ kind = "location" /\ phase = "parsed" /\ out.t = "Ok"
    /\ out' = LocationDisplay(out.val)
    /\ phase' = "shown"
    /\ UNCHANGED <<tok, kind, parseVars, queryVars>>

NextToken ==
    \/ apply_level
    \/ apply_parse_location
    \/ apply_parse_line
    \/ display_level
    \/ display_location

SpecToken == InitToken /\ [][NextToken]_vars

----------------------------------------------------------------------------
(* Claims on the query engine, under SpecQuery *)

Max(S) == CHOOSE x \in S : \A y \in S : y <= x

LastCall == calls[Len(calls)]

\* the argument of the last call of method `name` made on the current query
LastValue(cs, name) ==
    LET made == {i \in 1..Len(cs) : cs[i].name = "query"}
        since == IF made = {} THEN 0 ELSE Max(made)
        at == {i \in (since + 1)..Len(cs) : cs[i].name = name}
    IN  IF at = {} THEN None ELSE Some(cs[Max(at)].arg)

\* the predicates a sequence of calls asks for
PredicatesAfter(cs) ==
    [level |-> LastValue(cs, "with_level"),
     pid |-> LastValue(cs, "with_pid"),
     component |-> LastValue(cs, "with_component"),
     hostname |-> LastValue(cs, "with_hostname"),
     from_datetime |-> LastValue(cs, "from_datetime"),
     to_datetime |-> LastValue(cs, "to_datetime")]

\* the predicates in force when the last to_log of cs was made
PredicatesAtLastToLog(cs) ==
    PredicatesAfter(Take(cs, Max({i \in 1..Len(cs) : cs[i].name = "to_log"})))

DayNumber(dt) == (dt[1] * 12 + dt[2]) * 31 + dt[3]
SecondOfDay(dt) == (dt[4] * 60 + dt[5]) * 60 + dt[6]

StrictlyBefore(a, b) ==
    \/ DayNumber(a) < DayNumber(b)
    \/ DayNumber(a) = DayNumber(b) /\ SecondOfDay(a) < SecondOfDay(b)

MatchesFields(e, qq) ==
    /\ qq.level # None => e.level = qq.level[1]
    /\ qq.pid # None => e.pid = qq.pid[1]
    /\ qq.component # None => e.component = qq.component[1]
    /\ qq.hostname # None => e.hostname = qq.hostname[1]

InRange(e, qq) ==
    /\ qq.from_datetime # None => ~StrictlyBefore(e.datetime, qq.from_datetime[1])
    /\ qq.to_datetime # None => ~StrictlyBefore(qq.to_datetime[1], e.datetime)

AfterToLog == calls # <<>> /\ LastCall.name = "to_log"

\* C3: to_log returns exactly the subsequence of the source entries for which
\* every set predicate matches, duplicates included, in their original order;
\* with no predicate set every entry survives.
C3_ToLogIsConjunctiveSubsequence ==
    AfterToLog =>
        LET survivors == {i \in 1..Len(log) :
                              MatchesFields(log[i], q) /\ InRange(log[i], q)}
        IN  /\ result # None
            /\ Len(result[1]) = Cardinality(survivors)
            /\ \A k \in 1..Len(result[1]) :
                   result[1][k] = log[Nth(survivors, k)]
            /\ q = NoPredicates => result[1] = log

\* C3 witness: with a level and a pid predicate, an entry that matches the
\* level alone is left out and the entry that matches both is returned.
C3_Witness ==
    /\ AfterToLog
    /\ q.level = Some("Info") /\ q.pid = Some(1)
    /\ Len(log) = 2 /\ log[1].level = "Info" /\ log[1].pid = 2
    /\ log[2].level = "Info" /\ log[2].pid = 1
    /\ result = Some(<<log[2]>>)

\* C4: the datetime range is inclusive at both ends: among the entries the
\* other predicates accept, one is left out only when its datetime is strictly
\* before from_datetime or strictly after to_datetime.
C4_RangeIsInclusive ==
    AfterToLog =>
        \A i \in 1..Len(log) :
            MatchesFields(log[i], q) =>
                (log[i] \in Range(result[1])
                    <=> ~(\/ /\ q.from_datetime # None
                             /\ StrictlyBefore(log[i].datetime, q.from_datetime[1])
                          \/ /\ q.to_datetime # None
                             /\ StrictlyBefore(q.to_datetime[1], log[i].datetime)))

\* C4 witness: an entry whose datetime equals both bounds survives.
C4_Witness ==
    /\ AfterToLog
    /\ q.from_datetime = Some(T2) /\ q.to_datetime = Some(T2)
    /\ \E i \in 1..Len(log) :
           log[i].datetime = T2 /\ log[i] \in Range(result[1])

\* C5: each predicate holds the value of the last call made for it on the
\* query, or is unset when none was made; so after two with_pid calls to_log
\* filters by the second value.
C5_LastCallWins ==
    /\ q = PredicatesAfter(calls)
    /\ AfterToLog =>
           \A p \in PidArgs :
               LastValue(calls, "with_pid") = Some(p) =>
                   /\ \A k \in 1..Len(result[1]) : result[1][k].pid = p
                   /\ \A i \in 1..Len(log) :
                          (log[i].pid = p /\ q = [NoPredicates EXCEPT !.pid = Some(p)])
                              => log[i] \in Range(result[1])

\* C5 witness: with_pid(1), with_pid(2), to_log on a log with both pids
\* returned the entry of pid 2.
C5_Witness ==
    /\ calls = <<Call("with_pid", 1), Call("with_pid", 2), Call("to_log", None)>>
    /\ Len(log) = 2 /\ log[1].pid = 1 /\ log[2].pid = 2
    /\ result = Some(<<log[2]>>)

\* C6: no call changes the source log; a builder call changes no filtered
\* result; to_log called again with the same predicates returns an equal
\* result.
C6_SourceLogNeverChanges ==
    [][/\ log' = log
       /\ calls'[Len(calls')].name # "to_log" => result' = result
       /\ (/\ calls'[Len(calls')].name = "to_log"
           /\ result # None
           /\ PredicatesAtLastToLog(calls) = PredicatesAfter(calls'))
              => result' = result]_vars

\* C6 witness: to_log was called twice on a log it filters part of.
C6_Witness ==
    /\ calls = <<Call("with_pid", 1), Call("to_log", None), Call("to_log", None)>>
    /\ Len(log) = 2
    /\ result # None /\ Len(result[1]) = 1

----------------------------------------------------------------------------
(* Claims on the token parsers, under SpecToken *)

\* a numeral without its leading zeros
CanonicalDigits(ds) ==
    IF StripZeros(ds) = <<>> THEN <<"0">> ELSE StripZeros(ds)

LocationParsedAsWritten(f, m, l) ==
    /\ out.t = "Ok"
    /\ out.rest = <<>>
    /\ out.val.file = f
    /\ out.val.method = m
    /\ l = None <=> out.val.line = None
    /\ l # None => ToDigits(out.val.line[1]) = CanonicalDigits(l[1])

\* C8: parse_location accepts file, file(method), file:line and
\* file(method):line, consumes the whole token, and returns the method and the
\* line exactly when the text has them.
C8_FourShapesParsedAsWritten ==
    \A f \in FileTexts, m \in MethodOptions, l \in LineOptions :
        (kind = "location" /\ phase = "parsed" /\ tok = LocationText(f, m, l))
            => LocationParsedAsWritten(f, m, l)

\* C8 as amended: the same, for line digits that denote a number up to
\* u32::MAX; for a larger number the line is absent and `:digits` is left
\* unconsumed.
C8_FourShapesParsedAsWrittenU32 ==
    \A f \in FileTexts, m \in MethodOptions, l \in LineOptions :
        (kind = "location" /\ phase = "parsed" /\ tok = LocationText(f, m, l))
            => IF l = None \/ FitsU32(l[1])
               THEN LocationParsedAsWritten(f, m, l)
               ELSE /\ out.t = "Ok"
                    /\ out.rest = <<":">> \o l[1]
                    /\ out.val = [file |-> f, method |-> m, line |-> None]

\* C8 witness: mod.rb(Set) gave the file, the method and no line.
C8_Witness ==
    /\ kind = "location" /\ phase = "parsed"
    /\ tok = <<"m", "o", "d", ".", "r", "b", "(", "S", "e", "t", ")">>
    /\ out.t = "Ok" /\ out.rest = <<>>
    /\ out.val = [file |-> <<"m", "o", "d", ".", "r", "b">>,
                  method |-> Some(<<"S", "e", "t">>), line |-> None]

====
